---- MODULE Spec2Model ----
(***************************************************************************)
(* A model of sustainblop.py: the windowed dataset builder                 *)
(* (create_dataset), the autoregressive forecaster (predict_future), the   *)
(* per-ticker loading loop (load_model_and_data), and the page run with    *)
(* its forecast reconstruction and composite ranking                       *)
(* (show_stock_price_prediction_page).                                     *)
(*                                                                         *)
(* Conventions.  A feature row is a function over 0..4 (Open, High, Low,   *)
(* Close, Volume), indexed as in the source.  A dataset is a sequence of   *)
(* rows; Python's dataset[i] is dataset[i + 1] here.  Scaled values and    *)
(* scores are exact rationals kept as integer numerators over a            *)
(* denominator that is the same for all values compared with each other.   *)
(***************************************************************************)
EXTENDS Integers, Sequences, FiniteSets, TLC

VARIABLES
    pc,                 \* position of the running code
    ret,                \* where predict_future returns to
    tickers,            \* the parsed ticker list (line 163)
    fetch,              \* what yf.download and the training calls will do, per ticker
    idx,                \* loop position in `for ticker in tickers`
    data,               \* data[ticker]: the raw dataset (line 100)
    scaled_data,        \* scaled_data[ticker] (line 101)
    scalers,            \* scalers[ticker] (line 102)
    models,             \* models[ticker] (line 133)
    accuracies,         \* tickers with an accuracies entry (line 146)
    failed,             \* tickers whose processing raised and was reported (line 150)
    period,             \* the selected prediction period (line 166)
    predictions_dict,   \* predictions_dict[ticker] (line 197)
    error,              \* the uncaught exception that ended the run, or "none"
    pf_model,           \* predict_future: argument model
    pf_data,            \* predict_future: argument data
    days_to_predict,    \* predict_future: argument days_to_predict
    time_step,          \* predict_future: argument time_step
    last_window,        \* predict_future: local last_window
    future_predictions, \* predict_future: local future_predictions
    ncalls,             \* how many times model.predict has been called
    cd_dataset,         \* create_dataset: argument dataset
    cd_time_step,       \* create_dataset: argument time_step
    X,                  \* create_dataset: result X
    Y,                  \* create_dataset: result Y
    esg_scores,         \* the ESG lookup table (line 90)
    price_weight,       \* the slider value, in units of 1 / WeightDen (line 170)
    combined_ranks,     \* combined_ranks (line 229)
    ranked_stocks       \* ranked_stocks (line 231)

vars == <<pc, ret, tickers, fetch, idx, data, scaled_data, scalers, models,
          accuracies, failed, period, predictions_dict, error, pf_model, pf_data,
          days_to_predict, time_step, last_window, future_predictions, ncalls,
          cd_dataset, cd_time_step, X, Y, esg_scores, price_weight,
          combined_ranks, ranked_stocks>>

pageVars == <<error, tickers, fetch, idx, data, scaled_data, scalers, models,
              accuracies, failed, period, predictions_dict>>
forecastVars == <<ret, pf_model, pf_data, days_to_predict, time_step, last_window,
                  future_predictions, ncalls>>
buildVars == <<cd_dataset, cd_time_step, X, Y>>
rankVars == <<esg_scores, price_weight, combined_ranks, ranked_stocks>>

-----------------------------------------------------------------------------
(* Bounds of the model and constants of the program. *)

MaxRows == 6        \* longest freely drawn dataset
MaxStep == 3        \* largest freely drawn window length
MaxDays == 4        \* largest freely drawn forecast horizon
MaxSeed == 2        \* number of generated series per length
ValMod == 11        \* feature values are drawn from 0 .. ValMod - 1
MaxTickers == 3     \* longest freely drawn ticker list
MaxPageTickers == 2 \* longest ticker list of a page run
MaxCohort == 10     \* largest cohort of distinct tickers that all have data
WeightDen == 2      \* the slider takes the values 0/WeightDen .. WeightDen/WeightDen

TIME_STEP == 100    \* time_step = 100
Close == 3          \* index 3 corresponds to 'Close'
NumFeatures == 5    \* Open, High, Low, Close, Volume
Volume == NumFeatures - 1

Features == 0 .. (NumFeatures - 1)
NonTarget == Features \ {Close}

(* Lengths of the series that are split 65/35 before windowing. *)
SplitLens == {210, 300}

(* A generated series of n rows; consecutive rows differ in every feature. *)
(* Volume (feature 4) is the ordinal j of the row, so a row names its place. *)
GenRow(j, s) ==
    [f \in Features |->
        IF f = Volume THEN j ELSE ((j + s) * (f + 2) + (j \div 3)) % ValMod]
GenSeries(n, s) == [j \in 1 .. n |-> GenRow(j, s)]

Max(a, b) == IF a >= b THEN a ELSE b
MaxIn(S) == CHOOSE x \in S : \A y \in S : y <= x
MinIn(S) == CHOOSE x \in S : \A y \in S : x <= y
SpanIn(S) == IF MaxIn(S) = MinIn(S) THEN 1 ELSE MaxIn(S) - MinIn(S)
Range(q) == {q[k] : k \in 1 .. Len(q)}

-----------------------------------------------------------------------------
(* Values of the variables a specification does not use. *)

IdlePage ==
    /\ tickers = <<>> /\ fetch = <<>> /\ idx = 0 /\ data = <<>>
    /\ scaled_data = <<>> /\ scalers = <<>> /\ models = <<>>
    /\ accuracies = {} /\ failed = {} /\ period = "none"
    /\ predictions_dict = <<>> /\ error = "none"

IdleForecast ==
    /\ ret = "none" /\ pf_model = 0 /\ pf_data = <<>> /\ days_to_predict = 0
    /\ time_step = 0 /\ last_window = <<>> /\ future_predictions = <<>>
    /\ ncalls = 0

IdleBuild == cd_dataset = <<>> /\ cd_time_step = 0 /\ X = <<>> /\ Y = <<>>

IdleRank ==
    /\ esg_scores = <<>> /\ price_weight = 0 /\ combined_ranks = <<>>
    /\ ranked_stocks = <<>>

-----------------------------------------------------------------------------
(* create_dataset, lines 48-57. *)

(* dataset[i:(i + time_step)] *)
WindowAt(dataset, i, ts) == SubSeq(dataset, i + 1, i + ts)

(* A target taken from the last row of the window instead of the row after it. *)
TargetAtWindowEnd(dataset, i, ts) == dataset[i + ts][Close]

(* dataset[i + time_step, 3] *)
TargetAt(dataset, i, ts) == dataset[i + ts + 1][Close]

(* A loop bound that stops one iteration early. *)
LoopCountShort(dataset, ts) == Max(0, Len(dataset) - ts - 2)

(* The number of iterations of `for i in range(len(dataset) - time_step - 1)`. *)
LoopCount(dataset, ts) == Max(0, Len(dataset) - ts - 1)

create_dataset(dataset, ts) ==
    [X |-> [k \in 1 .. LoopCount(dataset, ts) |-> WindowAt(dataset, k - 1, ts)],
     Y |-> [k \in 1 .. LoopCount(dataset, ts) |-> TargetAt(dataset, k - 1, ts)]]

(* The 65/35 split of load_model_and_data, lines 105-107. *)
training_size(scaled) == (Len(scaled) * 65) \div 100
TrainData(scaled) == SubSeq(scaled, 1, training_size(scaled))
TestData(scaled) == SubSeq(scaled, training_size(scaled) + 1, Len(scaled))

-----------------------------------------------------------------------------
(* predict_future, lines 59-73. *)

RECURSIVE SumClose(_)
SumClose(w) == IF w = <<>> THEN 0 ELSE w[1][Close] + SumClose(Tail(w))

(* The trained models: model.predict is an opaque, deterministic function   *)
(* of the window.  Three stand-ins: persistence of the last close, a       *)
(* function of the whole window, and a function of its two ends.           *)
ModelIds == {1, 2, 3}
Predict(m, w) ==
    CASE m = 1 -> w[Len(w)][Close]
      [] m = 2 -> (SumClose(w) + 1) % ValMod
      [] OTHER -> (w[1][Close] + 2 * w[Len(w)][Close] + w[1][Volume]) % ValMod

(* data[-time_step:] *)
LastRows(d, ts) == SubSeq(d, Max(1, Len(d) - ts + 1), Len(d))

(* The predicted value written to the column before 'Close'. *)
NextRowWrongColumn(w, next_pred) == [w[Len(w)] EXCEPT ![Close - 1] = next_pred]

(* next_row = last_window[0, -1].copy(); next_row[3] = next_pred *)
NextRow(w, next_pred) == [w[Len(w)] EXCEPT ![Close] = next_pred]

(* A slide that drops the newest row instead of the oldest. *)
SlideDropNewest(w, next_row) == Append(SubSeq(w, 1, Len(w) - 1), next_row)

(* np.append(last_window[:, 1:, :], next_row.reshape(1, -1, 5), axis=1) *)
Slide(w, next_row) == Append(Tail(w), next_row)

(* A loop that stops one iteration short. *)
MoreIterationsShort(done, days) == done < days - 1

(* `for _ in range(days_to_predict)`: is there another iteration after     *)
(* `done` of them?                                                         *)
MoreIterations(done, days) == done < days

(* Line 64.  The reshape to (1, time_step, features) raises ValueError      *)
(* unless the slice holds exactly time_step rows.                          *)
EnterPredictFuture ==
    /\ pc = "enter"
    /\ IF Len(LastRows(pf_data, time_step)) = time_step
       THEN /\ last_window' = LastRows(pf_data, time_step)
            /\ future_predictions' = <<>>
            /\ pc' = "loop"
            /\ error' = error
       ELSE /\ pc' = "crashed"
            /\ error' = "ValueError: reshape"
            /\ UNCHANGED <<last_window, future_predictions>>
    /\ UNCHANGED <<ret, pf_model, pf_data, days_to_predict, time_step, ncalls>>
    /\ UNCHANGED <<tickers, fetch, idx, data, scaled_data, scalers, models,
                   accuracies, failed, period, predictions_dict>>
    /\ UNCHANGED <<buildVars, rankVars>>

(* One iteration of the loop, lines 66-72.  next_row is a copy, so the      *)
(* write to it does not reach data.                                        *)
LoopStep ==
    /\ pc = "loop"
    /\ MoreIterations(Len(future_predictions), days_to_predict)
    /\ LET next_pred == Predict(pf_model, last_window)
       IN  /\ ncalls' = ncalls + 1
           /\ future_predictions' = Append(future_predictions, next_pred)
           /\ last_window' = Slide(last_window, NextRow(last_window, next_pred))
    /\ UNCHANGED <<pc, ret, pf_model, pf_data, days_to_predict, time_step>>
    /\ UNCHANGED <<pageVars, buildVars, rankVars>>

(* Line 73: the loop is exhausted and the predictions are returned. *)
ReturnPredictFuture ==
    /\ pc = "loop"
    /\ ~MoreIterations(Len(future_predictions), days_to_predict)
    /\ pc' = ret
    /\ UNCHANGED <<forecastVars, pageVars, buildVars, rankVars>>

(* Specification SpecForecast: predict_future called on drawn arguments. *)
InitForecast ==
    /\ pc = "enter"
    /\ ret = "done"
    /\ pf_model \in ModelIds
    /\ pf_data \in {GenSeries(n, s) : n \in 0 .. MaxRows, s \in 1 .. MaxSeed}
    /\ days_to_predict \in 0 .. MaxDays
    /\ time_step \in 1 .. MaxStep
    /\ last_window = <<>> /\ future_predictions = <<>> /\ ncalls = 0
    /\ IdlePage /\ IdleBuild /\ IdleRank

NextForecast == EnterPredictFuture \/ LoopStep \/ ReturnPredictFuture

(* The function runs to completion once called: it waits for nothing. *)
SpecForecast == InitForecast /\ [][NextForecast]_vars /\ WF_vars(NextForecast)

(* The rows the loop has appended so far, rebuilt from its inputs and its   *)
(* outputs: row k is the last row of the seed window with the k-th         *)
(* prediction in the close column.                                         *)
SeedWindow == LastRows(pf_data, time_step)
AppendedRows(k) ==
    [j \in 1 .. k |-> [pf_data[Len(pf_data)] EXCEPT ![Close] = future_predictions[j]]]

(* The window after k iterations: the last time_step rows of the seed      *)
(* window followed by the k appended rows.                                 *)
WindowAfter(k) == LastRows(SeedWindow \o AppendedRows(k), time_step)

(* C1, the part that holds in every state: the predictor has been called   *)
(* once per value produced, value k is the prediction on the window left   *)
(* by the k - 1 steps before it, and a finished run holds exactly          *)
(* days_to_predict values (none, and no call, for 0).                      *)
ForecastCounts ==
    /\ ncalls = Len(future_predictions)
    /\ Len(future_predictions) <= days_to_predict
    /\ pc \in {"loop", "done"} =>
          \A k \in 1 .. Len(future_predictions) :
              future_predictions[k] = Predict(pf_model, WindowAfter(k - 1))
    /\ pc = "done" =>
          /\ Len(future_predictions) = days_to_predict
          /\ ncalls = days_to_predict
          /\ (days_to_predict = 0 => future_predictions = <<>> /\ ncalls = 0)

(* C1: predict_future, given a seed window of time_step rows and any       *)
(* days_to_predict >= 0, terminates and returns exactly days_to_predict    *)
(* values, having called the predictor exactly that many times, once per   *)
(* step and in order; for 0 it returns the empty sequence without a call.  *)
C1_ForecastLength ==
    /\ []ForecastCounts
    /\ (pc = "enter" /\ Len(pf_data) >= time_step) ~> (pc = "done")

C1_Witness ==
    /\ pc = "done"
    /\ days_to_predict >= 3
    /\ ncalls = days_to_predict
    /\ future_predictions[1] # future_predictions[2]

(* C2: in every step the appended row equals the previous last row of the  *)
(* window in features 0, 1, 2 and 4, its close is the value the predictor  *)
(* returned in that step, and so it carries the non-target features of the *)
(* seed window's last row.                                                 *)
C2_TargetOnlyMutation ==
    [][(pc = "loop" /\ Len(future_predictions') = Len(future_predictions) + 1) =>
          LET new == last_window'[time_step]
              old == last_window[time_step]
          IN  /\ \A f \in NonTarget : new[f] = old[f]
              /\ new[Close] = Predict(pf_model, last_window)
              /\ new[Close] = future_predictions'[Len(future_predictions')]
              /\ \A f \in NonTarget : new[f] = pf_data[Len(pf_data)][f]]_vars

C2_Witness ==
    /\ pc = "loop"
    /\ Len(future_predictions) >= 2
    /\ time_step >= 2
    /\ last_window[time_step][Close] # last_window[time_step - 1][Close]
    /\ last_window[time_step][Close] # pf_data[Len(pf_data)][Close]

(* C10: the rolling window has exactly time_step rows after every step;    *)
(* after k steps it is the last time_step rows of the seed window followed *)
(* by the k appended rows in order; and the input series is not changed.   *)
C10_RollingWindow ==
    /\ [](pc \in {"loop", "done"} =>
            /\ Len(last_window) = time_step
            /\ last_window = WindowAfter(Len(future_predictions)))
    /\ [][pf_data' = pf_data]_vars
    /\ [][(pc = "loop" /\ Len(future_predictions') = Len(future_predictions) + 1) =>
            /\ Len(last_window') = time_step
            /\ \A j \in 1 .. (time_step - 1) : last_window'[j] = last_window[j + 1]]_vars

C10_Witness ==
    /\ pc = "done"
    /\ time_step >= 2
    /\ Len(future_predictions) > time_step
    /\ Len(pf_data) > time_step
    /\ last_window[1] # last_window[time_step]

-----------------------------------------------------------------------------
(* The ranking block of show_stock_price_prediction_page, lines 224-236.   *)
(* A dict is a sequence of entries in insertion order.                     *)

RECURSIVE SumSeq(_)
SumSeq(q) == IF q = <<>> THEN 0 ELSE q[1] + SumSeq(Tail(q))

RECURSIVE MaxOf(_)
MaxOf(q) == IF Len(q) = 1 THEN q[1] ELSE Max(q[1], MaxOf(Tail(q)))

RECURSIVE MinOf(_)
MinOf(q) == IF Len(q) = 1 THEN q[1] ELSE -Max(-q[1], -MinOf(Tail(q)))

(* np.mean over one forecast.  Every forecast of a run has the same length *)
(* days_to_predict, so the means are kept as sums over that common length. *)
Mean(predictions) == SumSeq(predictions)

(* profit_ranks, line 225: one entry per key of predictions_dict, in order. *)
ProfitRanks(pd) ==
    [k \in 1 .. Len(pd) |-> [ticker |-> pd[k].ticker, mean |-> Mean(pd[k].predictions)]]

(* MinMaxScaler().fit_transform of one column: (x - min) / (max - min),     *)
(* with a zero span replaced by 1.  The result is kept as the numerators   *)
(* x - min and the common denominator.                                     *)
Span(col) == IF MaxOf(col) = MinOf(col) THEN 1 ELSE MaxOf(col) - MinOf(col)
MinMaxNum(col) == [k \in 1 .. Len(col) |-> col[k] - MinOf(col)]

(* esg_scores.get(ticker, 0) *)
EsgGet(esg, t) == IF t \in DOMAIN esg THEN esg[t] ELSE 0

(* The ESG column of line 228: one value per element of tickers. *)
EsgColumn(tk, esg) == [k \in 1 .. Len(tk) |-> EsgGet(esg, tk[k])]

(* An ESG weight that is not the complement of the price weight. *)
EsgWeightSame(w) == w

(* esg_weight = 1 - price_weight, line 171, in units of 1 / WeightDen. *)
EsgWeight(w) == WeightDen - w

(* norm_profit[i] * price_weight + norm_esg[i] * esg_weight, as a numerator *)
(* over Span(profit) * Span(esg) * WeightDen.                              *)
Combine(np, spanP, ne, spanE, w) == np * spanE * w + ne * spanP * EsgWeight(w)

(* dict insertion of line 229: a repeated key keeps its place and takes the *)
(* later value.                                                            *)
RECURSIVE DictFrom(_)
DictFrom(entries) ==
    IF entries = <<>> THEN <<>>
    ELSE LET init == DictFrom(SubSeq(entries, 1, Len(entries) - 1))
             e == entries[Len(entries)]
         IN  IF \E k \in 1 .. Len(init) : init[k].ticker = e.ticker
             THEN [k \in 1 .. Len(init) |->
                      IF init[k].ticker = e.ticker THEN e ELSE init[k]]
             ELSE Append(init, e)

(* Line 229 raises IndexError when tickers is longer than norm_profit. *)
CombinedRaises(tk, pd) == Len(tk) > Len(pd)

CombinedRanks(tk, pd, esg, w) ==
    LET profit == [k \in 1 .. Len(pd) |-> ProfitRanks(pd)[k].mean]
        norm_profit == MinMaxNum(profit)
        norm_esg == MinMaxNum(EsgColumn(tk, esg))
    IN  DictFrom([i \in 1 .. Len(tk) |->
                     [ticker |-> tk[i],
                      score |-> Combine(norm_profit[i], Span(profit), norm_esg[i],
                                        Span(EsgColumn(tk, esg)), w)]])

(* An order in which a later item overtakes the earlier items it ties with. *)
StaysAheadStrict(a, b) == a.score > b.score

(* sorted(..., reverse=True) is stable: of two items with the same score    *)
(* the one that came first stays first.  StaysAhead(a, b): a, already      *)
(* placed, stays ahead of the later item b.                                *)
StaysAhead(a, b) == a.score >= b.score

(* b placed into the sorted sequence q, behind every item that stays ahead. *)
RECURSIVE Place(_, _)
Place(q, b) ==
    IF q = <<>> THEN <<b>>
    ELSE IF StaysAhead(q[1], b) THEN <<q[1]>> \o Place(Tail(q), b)
         ELSE <<b>> \o q

(* sorted(combined_ranks.items(), key=lambda x: x[1], reverse=True) *)
RECURSIVE Sorted(_)
Sorted(items) ==
    IF items = <<>> THEN <<>>
    ELSE Place(Sorted(SubSeq(items, 1, Len(items) - 1)), items[Len(items)])

RankedStocks(tk, pd, esg, w) == Sorted(CombinedRanks(tk, pd, esg, w))

(* Lines 225-236 as one step. *)
Rank ==
    /\ pc = "rank"
    /\ IF ProfitRanks(predictions_dict) = <<>>
       THEN /\ pc' = "no predictions"
            /\ UNCHANGED <<combined_ranks, ranked_stocks, error>>
       ELSE IF CombinedRaises(tickers, predictions_dict)
       THEN /\ pc' = "crashed"
            /\ error' = "IndexError: norm_profit"
            /\ UNCHANGED <<combined_ranks, ranked_stocks>>
       ELSE /\ combined_ranks' =
                   CombinedRanks(tickers, predictions_dict, esg_scores, price_weight)
            /\ ranked_stocks' =
                   RankedStocks(tickers, predictions_dict, esg_scores, price_weight)
            /\ pc' = "ranked"
            /\ error' = error
    /\ UNCHANGED <<tickers, fetch, idx, data, scaled_data, scalers, models,
                   accuracies, failed, period, predictions_dict>>
    /\ UNCHANGED <<esg_scores, price_weight, forecastVars, buildVars>>

(* Specification SpecRank: the ranking block entered with drawn inputs.     *)
(* predictions_dict holds, in order of first appearance, the tickers that  *)
(* had data.  GeneralInputs: any short list, with repeats and with tickers *)
(* that lack data.  CohortInputs: distinct tickers that all have data.     *)
TickerNames == {1, 2, 3}
ForecastChoices == {<<1, 1>>, <<3, 5>>, <<6, 4>>}
EsgValues == {1}
CohortEsgValues == {0, 1, 2}

RECURSIVE FirstAppearances(_, _)
FirstAppearances(tk, have) ==
    IF tk = <<>> THEN <<>>
    ELSE LET init == FirstAppearances(SubSeq(tk, 1, Len(tk) - 1), have)
             t == tk[Len(tk)]
         IN  IF t \in have /\ ~\E k \in 1 .. Len(init) : init[k] = t
             THEN Append(init, t) ELSE init

PartialFns(S, V) == UNION {[D -> V] : D \in SUBSET S}

GeneralInputs ==
    \E n \in 1 .. MaxTickers : \E tk \in [1 .. n -> TickerNames] :
    \E have \in SUBSET Range(tk) : \E f \in [have -> ForecastChoices] :
        /\ tickers = tk
        /\ predictions_dict =
               [k \in 1 .. Len(FirstAppearances(tk, have)) |->
                   [ticker |-> FirstAppearances(tk, have)[k],
                    predictions |-> f[FirstAppearances(tk, have)[k]]]]
        /\ esg_scores \in PartialFns(Range(tk), EsgValues)

(* A cohort of n distinct tickers that all have data: tickers 1 and 2 have *)
(* any forecast and ESG score, the others share one forecast and one       *)
(* score.  A score of 0 stands for a ticker missing from the table.        *)
Profile(k) == IF k < 3 THEN k ELSE 3

CohortInputs ==
    \E n \in 1 .. MaxCohort :
    \E f \in [1 .. 3 -> ForecastChoices] : \E e \in [1 .. 3 -> CohortEsgValues] :
        /\ n < 3 => f[3] = f[1] /\ e[3] = e[1]
        /\ n < 2 => f[2] = f[1] /\ e[2] = e[1]
        /\ tickers = [k \in 1 .. n |-> k]
        /\ predictions_dict =
               [k \in 1 .. n |-> [ticker |-> k, predictions |-> f[Profile(k)]]]
        /\ esg_scores =
               [k \in {j \in 1 .. n : e[Profile(j)] # 0} |->
                   e[Profile(k)]]

InitRank ==
    /\ pc = "rank"
    /\ GeneralInputs \/ CohortInputs
    /\ price_weight \in 0 .. WeightDen
    /\ combined_ranks = <<>> /\ ranked_stocks = <<>>
    /\ fetch = <<>> /\ idx = 0 /\ data = <<>> /\ scaled_data = <<>>
    /\ scalers = <<>> /\ models = <<>> /\ accuracies = {} /\ failed = {}
    /\ period = "none" /\ error = "none"
    /\ IdleForecast /\ IdleBuild

NextRank == Rank

SpecRank == InitRank /\ [][NextRank]_vars

(* What the ranking claims speak of: a ticker's own mean forecast and own   *)
(* ESG score, its first place in the input list, and its rank.             *)
Cohort == Range(tickers)
Place1(q, t) == CHOOSE k \in 1 .. Len(q) : q[k] = t /\ \A j \in 1 .. (k - 1) : q[j] # t
MeanOf(t) ==
    Mean(predictions_dict[CHOOSE k \in 1 .. Len(predictions_dict) :
                              predictions_dict[k].ticker = t].predictions)
QualityOf(t) == EsgGet(esg_scores, t)
TickersOf(q) == [k \in 1 .. Len(q) |-> q[k].ticker]
RankIn(q, t) == Place1(TickersOf(q), t)
RankAt(t, w) == RankIn(RankedStocks(tickers, predictions_dict, esg_scores, w), t)

Means == {MeanOf(t) : t \in Cohort}
Qualities == {QualityOf(t) : t \in Cohort}

(* normPredicted[t] * w + normQuality[t] * (1 - w) from t's own values,     *)
(* over the denominator SpanIn(Means) * SpanIn(Qualities) * WeightDen.     *)
OwnScore(t, w) ==
    (MeanOf(t) - MinIn(Means)) * SpanIn(Qualities) * w
        + (QualityOf(t) - MinIn(Qualities)) * SpanIn(Means) * (WeightDen - w)

(* q lists every ticker of the cohort once, by Key descending, ties in the *)
(* order of the input list.                                                *)
OrderedBy(q, Key(_)) ==
    /\ Len(q) = Cardinality(Cohort)
    /\ Range(TickersOf(q)) = Cohort
    /\ \A a, b \in 1 .. Len(q) :
           a < b =>
               \/ Key(q[a].ticker) > Key(q[b].ticker)
               \/ /\ Key(q[a].ticker) = Key(q[b].ticker)
                  /\ Place1(tickers, q[a].ticker) < Place1(tickers, q[b].ticker)

(* C7: for any input list, also one with skipped or repeated tickers, the   *)
(* ranking is produced for the tickers that have a forecast and each one's *)
(* combined score is its own normalised mean forecast times w plus its own *)
(* normalised ESG score times 1 - w.                                       *)
C7_CombinedScore ==
    pc \in {"ranked", "crashed"} =>
        /\ pc = "ranked"
        /\ \A k \in 1 .. Len(combined_ranks) :
               combined_ranks[k].score = OwnScore(combined_ranks[k].ticker, price_weight)

(* C8: with w = 0 the ranked order is the cohort sorted by ESG score        *)
(* descending, with w = 1 by mean forecast descending, ties in input order *)
(* in both cases; a cohort of one ticker has that ticker at rank 1 for     *)
(* every w.                                                                *)
C8_DegenerateWeights ==
    pc = "ranked" =>
        /\ price_weight = 0 => OrderedBy(ranked_stocks, QualityOf)
        /\ price_weight = WeightDen => OrderedBy(ranked_stocks, MeanOf)
        /\ Len(tickers) = 1 =>
              Len(ranked_stocks) = 1 /\ ranked_stocks[1].ticker = tickers[1]

C8_Witness ==
    /\ pc = "ranked"
    /\ price_weight = 0
    /\ Len(tickers) >= 3
    /\ ranked_stocks[1].ticker # tickers[1]
    /\ \E a, b \in Cohort :
           a # b /\ QualityOf(a) = QualityOf(b) /\ MeanOf(a) # MeanOf(b)
    /\ \E a, b \in Cohort : QualityOf(a) # QualityOf(b)

(* The ticker is within the top (bottom) fifth of the cohort, ties counted  *)
(* against it: at most a fifth of the cohort, the ticker included, has a   *)
(* mean at least as large (a score at least as small).                     *)
TopQuintileMean(t) ==
    5 * Cardinality({u \in Cohort : MeanOf(u) >= MeanOf(t)}) <= Cardinality(Cohort)
BottomQuintileQuality(t) ==
    5 * Cardinality({u \in Cohort : QualityOf(u) <= QualityOf(t)}) <= Cardinality(Cohort)

(* No ticker of the set has a worse rank at weight w2 than in ranked_stocks. *)
NoneWorseAt(S, w2) ==
    LET later == TickersOf(RankedStocks(tickers, predictions_dict, esg_scores, w2))
        now == TickersOf(ranked_stocks)
    IN  \A t \in S : Place1(later, t) <= Place1(now, t)

(* C9 as stated: a ticker with a top-quintile mean forecast and a           *)
(* bottom-quintile ESG score never has a worse rank at a larger w.         *)
C9_AsStated ==
    pc = "ranked" =>
        \A w2 \in price_weight .. WeightDen :
            NoneWorseAt({t \in Cohort : TopQuintileMean(t) /\ BottomQuintileQuality(t)}, w2)

(* C9 as amended: whenever the ranking is produced, a ticker whose mean     *)
(* forecast is the largest of the cohort and whose ESG score is the        *)
(* smallest never has a worse rank at a larger w.                          *)
C9_ExtremeMonotone ==
    pc = "ranked" =>
        \A w2 \in price_weight .. WeightDen :
            NoneWorseAt({t \in Cohort : /\ MeanOf(t) = MaxIn(Means)
                                        /\ QualityOf(t) = MinIn(Qualities)}, w2)

C9_Witness ==
    /\ pc = "ranked"
    /\ price_weight = 0
    /\ \E t \in Cohort :
           /\ MeanOf(t) = MaxIn(Means) /\ QualityOf(t) = MinIn(Qualities)
           /\ RankIn(ranked_stocks, t) >= 3
           /\ RankAt(t, WeightDen) = 1

-----------------------------------------------------------------------------
(* load_model_and_data, lines 75-151, and the page run, lines 153-236.     *)

(* MinMaxScaler(feature_range=(0, 1)).fit_transform, lines 98-99: per       *)
(* feature (x - min) / (max - min), a zero span replaced by 1.  A scaled   *)
(* value is kept as its numerator x - min over the feature's span.         *)
Column(dataset, f) == {dataset[j][f] : j \in 1 .. Len(dataset)}
Fit(dataset) ==
    [min |-> [f \in Features |-> MinIn(Column(dataset, f))],
     span |-> [f \in Features |-> SpanIn(Column(dataset, f))]]
Transform(scaler, dataset) ==
    [j \in 1 .. Len(dataset) |-> [f \in Features |-> dataset[j][f] - scaler.min[f]]]

(* scaler.inverse_transform of one row: x * (max - min) + min. *)
InverseTransform(scaler, row) == [f \in Features |-> row[f] + scaler.min[f]]

(* d[k] = v on a dict kept as a function. *)
DictSet(d, k, v) == (k :> v) @@ d

(* What becomes of the training and evaluation of lines 119-146.  Any of   *)
(* the calls may fail on its own.  With no training pair or no test pair   *)
(* the entry cannot complete: model.fit raises on the empty set, or, where *)
(* the library lets it pass, the evaluation of lines 136-145 raises on the *)
(* empty test arrays after the model was stored at line 133.               *)
TrainingOutcomes(scaled) ==
    IF \/ LoopCount(TrainData(scaled), TIME_STEP) = 0
       \/ LoopCount(TestData(scaled), TIME_STEP) = 0
    THEN {"fit raises", "evaluation raises"}
    ELSE {"ok", "fit raises", "evaluation raises"}

(* days_to_predict, line 167. *)
DaysOf(p) == CASE p = "3 months" -> 90 [] p = "6 months" -> 180 [] p = "1 year" -> 365

PageTickers == {1, 2}
Periods == {"3 months", "6 months", "1 year"}
(* yf.download raises, or returns a frame of that many rows (0: empty). *)
Downloads ==
    {[raises |-> TRUE, rows |-> 0]}
        \cup {[raises |-> FALSE, rows |-> n] : n \in {0, 3, 210, 300}}
PageModels == {1, 2}

(* Lines 173-176: the button is pressed. *)
Start ==
    /\ pc = "start"
    /\ IF tickers = <<>> THEN pc' = "returned" /\ idx' = idx
       ELSE pc' = "load" /\ idx' = 1
    /\ UNCHANGED <<error, tickers, fetch, data, scaled_data, scalers, models,
                   accuracies, failed, period, predictions_dict>>
    /\ UNCHANGED <<forecastVars, buildVars, rankVars>>

(* One iteration of the loop of load_model_and_data, lines 92-150, with its *)
(* try/except: an exception leaves what was stored before it.              *)
LoadTicker ==
    /\ pc = "load"
    /\ idx <= Len(tickers)
    /\ LET ticker == tickers[idx]
           dataset == GenSeries(fetch[ticker].rows, ticker)
           scaler == Fit(dataset)
           scaled == Transform(scaler, dataset)
       IN  IF fetch[ticker].raises
           THEN /\ failed' = failed \cup {ticker}
                /\ UNCHANGED <<data, scaled_data, scalers, models, accuracies>>
           ELSE IF fetch[ticker].rows = 0
           THEN UNCHANGED <<data, scaled_data, scalers, models, accuracies, failed>>
           ELSE /\ data' = DictSet(data, ticker, dataset)
                /\ scaled_data' = DictSet(scaled_data, ticker, scaled)
                /\ scalers' = DictSet(scalers, ticker, scaler)
                /\ \E outcome \in TrainingOutcomes(scaled) : \E m \in PageModels :
                       /\ models' = IF outcome = "fit raises" THEN models
                                    ELSE DictSet(models, ticker, m)
                       /\ accuracies' = IF outcome = "ok"
                                        THEN accuracies \cup {ticker} ELSE accuracies
                       /\ failed' = IF outcome = "ok" THEN failed
                                    ELSE failed \cup {ticker}
    /\ idx' = idx + 1
    /\ UNCHANGED <<pc, error, tickers, fetch, period, predictions_dict>>
    /\ UNCHANGED <<forecastVars, buildVars, rankVars>>

(* Lines 179-184: load_model_and_data has returned. *)
CheckModels ==
    /\ pc = "load"
    /\ idx > Len(tickers)
    /\ IF DOMAIN models = {} THEN pc' = "returned" /\ idx' = idx
       ELSE pc' = "predict" /\ idx' = 1
    /\ predictions_dict' = <<>>
    /\ UNCHANGED <<error, tickers, fetch, data, scaled_data, scalers, models,
                   accuracies, failed, period>>
    /\ UNCHANGED <<forecastVars, buildVars, rankVars>>

(* Where the loop of line 185 goes after the iteration at position i. *)
AfterIteration(i) == IF i + 1 > Len(tickers) THEN "rank" ELSE "predict"

(* Lines 185-188 and 221-222: the head of one iteration.  models[ticker]    *)
(* raises KeyError for a ticker that has scaled data and no model.         *)
PredictTicker ==
    /\ pc = "predict"
    /\ idx <= Len(tickers)
    /\ LET ticker == tickers[idx]
       IN  IF ticker \notin DOMAIN scaled_data
           THEN /\ pc' = AfterIteration(idx)
                /\ idx' = idx + 1
                /\ UNCHANGED <<error, forecastVars>>
           ELSE IF ticker \notin DOMAIN models
           THEN /\ pc' = "crashed"
                /\ error' = "KeyError: models"
                /\ UNCHANGED <<idx, forecastVars>>
           ELSE /\ pc' = "enter"
                /\ ret' = "reconstruct"
                /\ pf_model' = models[ticker]
                /\ pf_data' = scaled_data[ticker]
                /\ days_to_predict' = DaysOf(period)
                /\ time_step' = TIME_STEP
                /\ last_window' = <<>>
                /\ future_predictions' = <<>>
                /\ ncalls' = 0
                /\ UNCHANGED <<idx, error>>
    /\ UNCHANGED <<tickers, fetch, data, scaled_data, scalers, models,
                   accuracies, failed, period, predictions_dict>>
    /\ UNCHANGED <<buildVars, rankVars>>

(* np.hstack raises ValueError unless its blocks have the same number of    *)
(* rows.                                                                   *)
HstackRaises(rowCounts) == Cardinality(rowCounts) > 1

(* Lines 190-220: the forecast is put between the first three and the last *)
(* column of the last time_step scaled rows, inverse-transformed, and its  *)
(* close column is stored.                                                 *)
Reconstruct ==
    /\ pc = "reconstruct"
    /\ LET ticker == tickers[idx]
           context == LastRows(scaled_data[ticker], time_step)
           stacked == [k \in 1 .. Len(future_predictions) |->
                          [f \in Features |-> IF f = Close THEN future_predictions[k]
                                              ELSE context[k][f]]]
           actual_predictions ==
               [k \in 1 .. Len(stacked) |->
                   InverseTransform(scalers[ticker], stacked[k])[Close]]
       IN  IF HstackRaises({Len(context), Len(future_predictions)})
           THEN /\ pc' = "crashed"
                /\ error' = "ValueError: hstack"
                /\ UNCHANGED <<idx, predictions_dict>>
           ELSE /\ predictions_dict' =
                       DictFrom(Append(predictions_dict,
                                       [ticker |-> ticker,
                                        predictions |-> actual_predictions]))
                /\ pc' = AfterIteration(idx)
                /\ idx' = idx + 1
                /\ error' = error
    /\ UNCHANGED <<tickers, fetch, data, scaled_data, scalers, models,
                   accuracies, failed, period>>
    /\ UNCHANGED <<forecastVars, buildVars, rankVars>>

(* Specification Spec: one run of the page after "Get Predictions". *)
Init ==
    /\ pc = "start"
    /\ \E n \in 0 .. MaxPageTickers : tickers \in [1 .. n -> PageTickers]
    /\ fetch \in [Range(tickers) -> Downloads]
    /\ period \in Periods
    /\ idx = 0 /\ data = <<>> /\ scaled_data = <<>> /\ scalers = <<>>
    /\ models = <<>> /\ accuracies = {} /\ failed = {}
    /\ predictions_dict = <<>> /\ error = "none"
    /\ IdleForecast /\ IdleBuild /\ IdleRank

Next ==
    \/ Start
    \/ LoadTicker
    \/ CheckModels
    \/ PredictTicker
    \/ EnterPredictFuture
    \/ LoopStep
    \/ ReturnPredictFuture
    \/ Reconstruct

Spec == Init /\ [][Next]_vars /\ WF_vars(Next)

(* The run never reaches the ranking block: the first ticker that has       *)
(* scaled data ends the run at line 188 or at line 190.                    *)
RankingNotReached == pc # "rank"

(* C5: for time_step = 100 and each of the horizons 90, 180 and 365, the    *)
(* reconstruction of a returned forecast stores exactly one unscaled value *)
(* per forecast value.                                                     *)
C5_ReconstructedLength ==
    [][pc = "reconstruct" =>
          /\ pc' \in {"predict", "rank"}
          /\ Len(predictions_dict') >= 1
          /\ Len(predictions_dict'[Len(predictions_dict')].predictions)
                 = Len(future_predictions)]_vars

(* C6: a ticker whose processing failed is skipped, and when another ticker *)
(* succeeded the run is not aborted.                                       *)
C6_FailureIsSkipped ==
    (failed # {} /\ accuracies \ failed # {}) => pc # "crashed"

-----------------------------------------------------------------------------
(* Specification SpecBuild: create_dataset applied to drawn arguments,     *)
(* among them the partitions load_model_and_data hands it with             *)
(* time_step = 100.                                                        *)

BuildDatasets ==
    {GenSeries(n, s) : n \in 0 .. MaxRows, s \in 1 .. MaxSeed}
        \cup {TrainData(GenSeries(n, s)) : n \in SplitLens, s \in 1 .. MaxSeed}
        \cup {TestData(GenSeries(n, s)) : n \in SplitLens, s \in 1 .. MaxSeed}

InitBuild ==
    /\ pc = "build"
    /\ cd_dataset \in BuildDatasets
    /\ cd_time_step \in (1 .. MaxStep) \cup {TIME_STEP}
    /\ X = <<>> /\ Y = <<>>
    /\ IdlePage /\ IdleForecast /\ IdleRank

CallCreateDataset ==
    /\ pc = "build"
    /\ X' = create_dataset(cd_dataset, cd_time_step).X
    /\ Y' = create_dataset(cd_dataset, cd_time_step).Y
    /\ pc' = "built"
    /\ UNCHANGED <<cd_dataset, cd_time_step, pageVars, forecastVars, rankVars>>

NextBuild == CallCreateDataset

SpecBuild == InitBuild /\ [][NextBuild]_vars

(* C3: for a dataset of n rows and window length L, create_dataset returns *)
(* exactly n - L - 1 (window, target) pairs when n >= L + 2 and none when   *)
(* n < L + 2; with L = 100 the 136-row train partition of a 210-row series *)
(* gives 35 pairs and its 74-row test partition gives none.                *)
C3_WindowCount ==
    pc = "built" =>
        LET n == Len(cd_dataset)
            L == cd_time_step
        IN  /\ Len(X) = Len(Y)
            /\ (n >= L + 2 => Len(X) = n - L - 1)
            /\ (n < L + 2 => Len(X) = 0)
            /\ (L = 100 /\ n = 136 => Len(X) = 35)
            /\ (L = 100 /\ n = 74 => Len(X) = 0)
            /\ \A s \in 1 .. MaxSeed :
                   /\ Len(TrainData(GenSeries(210, s))) = 136
                   /\ Len(TestData(GenSeries(210, s))) = 74

C3_Witness ==
    /\ pc = "built"
    /\ cd_time_step = 100
    /\ cd_dataset = TrainData(GenSeries(210, 1))
    /\ Len(X) = 35

(* The part of C4 that holds of every pair: pair i (from 0) holds rows     *)
(* i .. i + L - 1 as its window and the close of row i + L as its target,  *)
(* and row i + L exists.                                                   *)
PairsAligned ==
    \A k \in 1 .. Len(X) :
        LET i == k - 1
            L == cd_time_step
        IN  /\ Len(X[k]) = L
            /\ \A j \in 1 .. L : X[k][j] = cd_dataset[i + j]
            /\ i + L + 1 <= Len(cd_dataset)
            /\ Y[k] = cd_dataset[i + L + 1][Close]

(* How many rows lie between the last row of the last window and the last  *)
(* row of the dataset, read off the rows' ordinals.                        *)
LastWindowGap ==
    cd_dataset[Len(cd_dataset)][Volume] - X[Len(X)][cd_time_step][Volume]

(* C4 as stated: every pair is aligned as above, and the last window ends  *)
(* exactly one row before the last row of the dataset.                     *)
C4_AsStated ==
    pc = "built" => PairsAligned /\ (Len(X) > 0 => LastWindowGap = 1)

(* C4 as amended: every pair i holds rows i .. i + L - 1 and the close of  *)
(* row i + L; the last window ends exactly two rows before the last row of *)
(* the dataset, its target is the close of the row before the last, and    *)
(* the last row is in no window and is no target.                          *)
C4_WindowsAndTargets ==
    pc = "built" =>
        /\ PairsAligned
        /\ Len(X) = Len(Y)
        /\ (Len(X) > 0 =>
              /\ LastWindowGap = 2
              /\ Y[Len(Y)] = cd_dataset[Len(cd_dataset) - 1][Close]
              /\ \A k \in 1 .. Len(X) : \A j \in 1 .. cd_time_step :
                     X[k][j][Volume] < cd_dataset[Len(cd_dataset)][Volume] - 1)

C4_Witness ==
    /\ pc = "built"
    /\ Len(X) >= 2
    /\ cd_time_step >= 2
    /\ Y[1] # X[1][cd_time_step][Close]

====
